---- MODULE Spec2Model ----
(***************************************************************************)
(* Model of the sign-in handshake script "Auth Test/auth.py": a PKCE       *)
(* authorization-code exchange wrapped around a three-step interactive     *)
(* login policy, followed by two downstream API calls.  Every network call *)
(* of the script is split into the sending of the request (evaluation of   *)
(* its arguments included) and the blocking receipt of the response.       *)
(* Strings of the program are TLA+ strings; a text the program scans with  *)
(* a regular expression is a sequence of lexemes.                          *)
(***************************************************************************)
EXTENDS Integers, Sequences, FiniteSets, TLC

(***************************************************************************)
(* Bounds of the model.                                                    *)
(***************************************************************************)
MaxParams == 2      \* query parameters of a redirect Location
MaxInputs == 1      \* <input> tags of an authorization page
MaxAttempts == 2    \* executions of the script one after another
MaxFixtures == 2    \* fixtures of a season ahead of its last gameweek

(***************************************************************************)
(* Program constants.                                                      *)
(***************************************************************************)
CLIENT_ID == "bfcbaf69-aade-4c1b-8f00-c1cb8a193030"
REDIRECT_URI == "https://fantasy.premierleague.com/"
STANDARD_CONNECTION_ID == "0d8c928e4970386733ce110b9dda8412"
team_id == "5252797"

URLS ==
  [auth   |-> "https://account.premierleague.com/as/authorize",
   start  |-> "https://account.premierleague.com/davinci/policy/262ce4b01d19dd9d385d26bddb4297b6/start",
   resume |-> "https://account.premierleague.com/as/resume",
   token  |-> "https://account.premierleague.com/as/token",
   me     |-> "https://fantasy.premierleague.com/api/me/"]

\* URLS["login"].format(connection_id)
LoginUrl(connection_id) ==
  "https://account.premierleague.com/davinci/connections/" \o connection_id
     \o "/capabilities/customHTMLTemplate"

\* f"https://fantasy.premierleague.com/api/my-team/{team_id}/"
team_url == "https://fantasy.premierleague.com/api/my-team/" \o team_id \o "/"

\* f"Bearer {access_token}"
Bearer(tok) == "Bearer " \o tok

(***************************************************************************)
(* Generic helpers.                                                        *)
(***************************************************************************)
Unset == "<unset>"                      \* a Python name not yet bound
EmptyDict == [k \in {} |-> ""]
Restrict(f, S) == [k \in S |-> f[k]]
SubDicts(f) == {Restrict(f, S) : S \in SUBSET DOMAIN f}
Min(S) == CHOOSE m \in S : \A n \in S : m <= n
Max(S) == CHOOSE m \in S : \A n \in S : m >= n

RECURSIVE Concat(_)
Concat(s) ==
  IF s = <<>> THEN ""
  ELSE IF Len(s) = 1 THEN s[1]
  ELSE LET h == Len(s) \div 2
       IN Concat(SubSeq(s, 1, h)) \o Concat(SubSeq(s, h + 1, Len(s)))

RECURSIVE Join(_, _)
\* the sequences of ss, in order, separated by sep
Join(ss, sep) ==
  IF ss = <<>> THEN <<>>
  ELSE IF Len(ss) = 1 THEN ss[1]
  ELSE ss[1] \o <<sep>> \o Join(Tail(ss), sep)

SeqsUpTo(S, n) == UNION {[1..k -> S] : k \in 0..n}

\* the result of re.search: None, or a match with its first group
NoMatch == [matched |-> FALSE, group1 |-> ""]
Match(g) == [matched |-> TRUE, group1 |-> g]

(***************************************************************************)
(* PKCE.                                                                   *)
(***************************************************************************)
StateTokens == {"st1", "st2"}           \* uuid4().hex values and echoed states

MaxEntropy == 40    \* draws of the random source given to the PKCE functions
TOKEN_BYTES == 64   \* secrets.token_urlsafe(64)
VERIFIER_CHARS == 128                   \* [:128]
DIGEST_SIZE == 32   \* hashlib.sha256().digest_size

\* the alphabet of base64.b64encode, value 0 first
b64alphabet ==
  <<"A", "B", "C", "D", "E", "F", "G", "H", "I", "J", "K", "L", "M",
    "N", "O", "P", "Q", "R", "S", "T", "U", "V", "W", "X", "Y", "Z",
    "a", "b", "c", "d", "e", "f", "g", "h", "i", "j", "k", "l", "m",
    "n", "o", "p", "q", "r", "s", "t", "u", "v", "w", "x", "y", "z",
    "0", "1", "2", "3", "4", "5", "6", "7", "8", "9", "+", "/">>

\* ord(c) of the characters base64 text is made of
ord ==
  [c \in {b64alphabet[k] : k \in 1..64} \cup {"-", "_", "="} |->
     IF c = "-" THEN 45 ELSE IF c = "_" THEN 95 ELSE IF c = "=" THEN 61
     ELSE LET k == CHOOSE k \in 1..64 : b64alphabet[k] = c
          IN IF k <= 26 THEN 64 + k
             ELSE IF k <= 52 THEN 70 + k
             ELSE IF k <= 62 THEN k - 5
             ELSE IF k = 63 THEN 43 ELSE 47]

\* str.encode() of an ASCII string: its bytes
encode(string) == [i \in 1..Len(string) |-> ord[SubSeq(string, i, i)]]
\* bytes.decode(): the string of a sequence of characters
decode(chars) == Concat(chars)

\* base64.b64encode: three bytes to four characters, the last group padded
\* with "="
b64encode(bytes) ==
  LET n == Len(bytes)
      b(i) == IF i <= n THEN bytes[i] ELSE 0
      sextet(g, pos) ==
        IF pos = 0 THEN b(3 * g + 1) \div 4
        ELSE IF pos = 1 THEN (b(3 * g + 1) % 4) * 16 + b(3 * g + 2) \div 16
        ELSE IF pos = 2 THEN (b(3 * g + 2) % 16) * 4 + b(3 * g + 3) \div 64
        ELSE b(3 * g + 3) % 64
  IN [j \in 1..4 * ((n + 2) \div 3) |->
        LET g == (j - 1) \div 4
            pos == (j - 1) % 4
        IN IF pos >= 2 /\ 3 * g + pos > n THEN "="
           ELSE b64alphabet[sextet(g, pos) + 1]]

\* base64.urlsafe_b64encode: b64encode, then "+" to "-" and "/" to "_"
urlsafe_b64encode(bytes) ==
  LET e == b64encode(bytes)
  IN [i \in DOMAIN e |-> IF e[i] = "+" THEN "-" ELSE IF e[i] = "/" THEN "_" ELSE e[i]]

RECURSIVE rstrip(_, _)
\* chars.rstrip(ch)
rstrip(chars, ch) ==
  IF chars # <<>> /\ chars[Len(chars)] = ch
    THEN rstrip(SubSeq(chars, 1, Len(chars) - 1), ch)
  ELSE chars

\* s[:n]
Slice(s, n) == SubSeq(s, 1, Min({n, Len(s)}))

\* secrets.token_bytes(TOKEN_BYTES) as drawn the k-th time: the operating
\* system's random source, replaced by a fixed sample of byte strings
token_bytes(k) ==
  [i \in 1..TOKEN_BYTES |-> (255 + k * 53 + i * (2 * k + 1) * 7 + (i * i * k) \div 3) % 256]
Entropy == {token_bytes(k) : k \in 0..MaxEntropy}
\* the draws the handshake is run with
HandshakeEntropy == {token_bytes(0), token_bytes(1)}

\* secrets.token_urlsafe on the bytes drawn:
\* base64.urlsafe_b64encode(tok).rstrip(b"=").decode("ascii")
token_urlsafe(tok) == decode(rstrip(urlsafe_b64encode(tok), "="))

\* lines 26-27, with 24 bytes of entropy
generate_code_verifier_short(tok) == Slice(token_urlsafe(SubSeq(tok, 1, 24)), VERIFIER_CHARS)

\* lines 26-27: secrets.token_urlsafe(64)[:128] on the bytes drawn
generate_code_verifier(tok) == Slice(token_urlsafe(tok), VERIFIER_CHARS)

RECURSIVE Sum(_, _, _)
\* f[lo] + ... + f[hi]
Sum(f, lo, hi) ==
  IF lo > hi THEN 0
  ELSE IF lo = hi THEN f[lo]
  ELSE LET mid == (lo + hi) \div 2
       IN Sum(f, lo, mid) + Sum(f, mid + 1, hi)

\* hashlib.sha256(message).digest(): DIGEST_SIZE bytes fixed by the message.
\* The compression function is replaced by a mixing of the message bytes,
\* which keeps what the callers rely on: the size of the digest and its
\* being a function of the message alone.
sha256(message) ==
  LET s0 == Sum(message, 1, Len(message))
      s1 == Sum([i \in DOMAIN message |-> i * message[i]], 1, Len(message))
  IN [i \in 1..DIGEST_SIZE |-> (s1 + i * s0 + i * i * 31 + Len(message)) % 256]

\* lines 30-32 without the rstrip("=")
generate_code_challenge_padded(verifier) ==
  decode(urlsafe_b64encode(sha256(encode(verifier))))

\* lines 30-32
generate_code_challenge(verifier) ==
  LET digest == sha256(encode(verifier))
  IN decode(rstrip(urlsafe_b64encode(digest), "="))

\* the verifiers and challenges of the handshake's draws
Verifiers == {generate_code_verifier(tok) : tok \in HandshakeEntropy}
Challenges == [v \in Verifiers |-> generate_code_challenge(v)]

(***************************************************************************)
(* The authorization page.  A page is the sequence of its quoted           *)
(* "key":"value" fields and the sequence of its <input ...> tags; a tag is *)
(* the sequence of its attributes, written name="value" in the page text.  *)
(***************************************************************************)
Attr(n, v) == [name |-> n, value |-> v]
Field(k, v) == [key |-> k, value |-> v]

\* re.search(r'"accessToken":"([^"]+)"', login_html): the first quoted
\* accessToken field whose value is not empty
ScrapeAccessToken(html) ==
  LET hits == {i \in 1..Len(html.fields) :
                 /\ html.fields[i].key = "accessToken"
                 /\ html.fields[i].value # ""}
  IN IF hits = {} THEN NoMatch ELSE Match(html.fields[Min(hits)].value)

\* attribute texts that end in name="state" / that end in value="..."
NameLike == {"name", "data-name"}
ValueLike == {"value", "data-value"}

\* <input[^>]+name="state"[^>]+value="([^"]+)" inside one tag: both [^>]+
\* are greedy, so the group is the last non-empty value attribute that
\* stands after some name="state"
TagValues(tag) ==
  {j \in 1..Len(tag) : tag[j].name \in ValueLike /\ tag[j].value # ""}
TagMatches(tag) ==
  /\ TagValues(tag) # {}
  /\ \E i \in 1..Len(tag) :
        /\ tag[i].name \in NameLike
        /\ tag[i].value = "state"
        /\ i < Max(TagValues(tag))

\* the same search with an empty state standing in for a failed match
ScrapeState_lenient(html) ==
  LET hits == {t \in 1..Len(html.inputs) : TagMatches(html.inputs[t])}
  IN IF hits = {} THEN Match("")
     ELSE LET tag == html.inputs[Min(hits)]
          IN Match(tag[Max(TagValues(tag))].value)

\* re.search(r'<input[^>]+name="state"[^>]+value="([^"]+)"', login_html):
\* the leftmost tag that matches
ScrapeState(html) ==
  LET hits == {t \in 1..Len(html.inputs) : TagMatches(html.inputs[t])}
  IN IF hits = {} THEN NoMatch
     ELSE LET tag == html.inputs[Min(hits)]
          IN Match(tag[Max(TagValues(tag))].value)

(***************************************************************************)
(* The redirect Location, a sequence of lexemes such as                    *)
(* <<"https://x/", "?", "state", "=", "s", "&", "code", "=", "ABC123">>.   *)
(***************************************************************************)
\* end (exclusive) of the run of lexemes other than "&" that starts at i
RECURSIVE RunEnd(_, _)
RunEnd(loc, i) ==
  IF i > Len(loc) \/ loc[i] = "&" THEN i ELSE RunEnd(loc, i + 1)

\* the same search with the pattern r"&code=([^&]+)"
SearchCode_ampersandOnly(loc) ==
  LET hits == {i \in 1..Len(loc) :
                 /\ loc[i] = "&"
                 /\ i + 3 <= Len(loc)
                 /\ loc[i + 1] = "code"
                 /\ loc[i + 2] = "="
                 /\ loc[i + 3] # "&"}
  IN IF hits = {} THEN NoMatch
     ELSE LET i == Min(hits)
          IN Match(Concat(SubSeq(loc, i + 3, RunEnd(loc, i + 3) - 1)))

\* re.search(r"[?&]code=([^&]+)", location): the leftmost "?" or "&" that
\* is followed by code= and at least one character other than "&"
SearchCode(loc) ==
  LET hits == {i \in 1..Len(loc) :
                 /\ loc[i] \in {"?", "&"}
                 /\ i + 3 <= Len(loc)
                 /\ loc[i + 1] = "code"
                 /\ loc[i + 2] = "="
                 /\ loc[i + 3] # "&"}
  IN IF hits = {} THEN NoMatch
     ELSE LET i == Min(hits)
          IN Match(Concat(SubSeq(loc, i + 3, RunEnd(loc, i + 3) - 1)))

(***************************************************************************)
(* Messages.  A request is what the script hands to session.get/post; a    *)
(* response is what the script can observe of the provider's answer.       *)
(***************************************************************************)
Request(method, url) ==
  [method |-> method, url |-> url, params |-> EmptyDict, headers |-> EmptyDict,
   json |-> EmptyDict, data |-> EmptyDict, allow_redirects |-> TRUE]

Resp(status, text, isJson, json, hdrs) ==
  [status_code |-> status, text |-> text, isJson |-> isJson, json |-> json,
   headers |-> hdrs]
JsonResp(status, json) == Resp(status, "", TRUE, json, EmptyDict)
NotJsonResp(status) == Resp(status, "<html>error</html>", FALSE, EmptyDict, EmptyDict)

ReqEvent(ep, req) == [kind |-> "request", ep |-> ep, msg |-> req]
RespEvent(ep, r) == [kind |-> "response", ep |-> ep, msg |-> r]
ExcEvent(ep) == [kind |-> "exception", ep |-> ep, msg |-> EmptyDict]

(***************************************************************************)
(* What the provider may answer: the inputs of the model.                  *)
(***************************************************************************)
TagSet ==
  { <<Attr("name", "state"), Attr("value", "st2")>>,
    <<Attr("value", "st1"), Attr("name", "state")>> }
FieldSeqs ==
  { <<>>,
    <<Field("accessToken", "tok1")>>,
    <<Field("accessToken", ""), Field("csrf", "zz")>> }
Pages == {[fields |-> f, inputs |-> t] : f \in FieldSeqs, t \in SeqsUpTo(TagSet, MaxInputs)}
AuthResponses ==
  {Resp(st, page, FALSE, EmptyDict, EmptyDict) : st \in {200, 500}, page \in Pages}

StartResponses ==
  {JsonResp(200, b) :
     b \in SubDicts([interactionId |-> "i1", interactionToken |-> "it1", id |-> "e1"])}
    \cup {NotJsonResp(500)}

Step1Responses ==
  {JsonResp(200, b) : b \in {[id |-> "e1"], [id |-> "e2"], EmptyDict}}
    \cup {NotJsonResp(500)}

Step2Responses ==
  {JsonResp(200, b) :
     b \in UNION {SubDicts([id |-> "e3", connectionId |-> c]) :
                    c \in {"c2", STANDARD_CONNECTION_ID}}}
    \cup {NotJsonResp(500)}

Step3Responses ==
  {JsonResp(200, b) : b \in {[dvResponse |-> "dv1"], EmptyDict}}
    \cup {NotJsonResp(500)}

\* query parameters and fragments of a redirect Location
ParamSet ==
  { <<"code", "=", "AUTH9">>, <<"state", "=", "s">>, <<"xcode", "=", "Z">> }
FragSet ==
  { <<>>, <<"#", "state", "=", "s", "&", "code", "=", "F">> }
Locations ==
  { <<"https://x/">> \o (IF ps = <<>> THEN <<>> ELSE <<"?">> \o Join(ps, "&")) \o fr :
      ps \in SeqsUpTo(ParamSet, MaxParams), fr \in FragSet }
ResumeResponses ==
  {Resp(302, "", FALSE, EmptyDict, [Location |-> loc]) : loc \in Locations}
    \cup {Resp(200, "", FALSE, EmptyDict, EmptyDict)}

TokenResponses ==
  {JsonResp(st, b) : st \in {200, 400},
                     b \in SubDicts([access_token |-> "A1", refresh_token |-> "R1"])}
    \cup {NotJsonResp(500)}

MeResponses == {JsonResp(200, [player |-> "p"])}

TeamResponses ==
  { Resp(200, "{picks}", TRUE, [picks |-> "p"], EmptyDict),
    Resp(200, "<html>", FALSE, EmptyDict, EmptyDict),
    Resp(403, "denied", TRUE, [detail |-> "denied"], EmptyDict) }

\* os.getenv("EMAIL"), os.getenv("PASSWORD")
Environments == {[EMAIL |-> "user@x", PASSWORD |-> "hunter2"]}

(***************************************************************************)
(* State: the position of the script, the names it binds, the traffic of   *)
(* its session, and what it prints and saves.                              *)
(***************************************************************************)
VARIABLES
  pc,                 \* position of the script
  env,                \* os.environ: EMAIL and PASSWORD
  entropy,            \* the bytes drawn from the random source
  code_verifier, code_challenge, initial_state,
  access_token,       \* bootstrap token, rebound to the OAuth access token
  new_state, headers, interaction_id, interaction_token,
  response,           \* the last response bound to `response`
  location, auth_code, refresh_token,
  net,                \* requests sent and responses received, in order
  error,              \* the uncaught exception that ended the script
  stdout, files,
  attempt,            \* which execution of the script this is, from 1
  minted,             \* the execution lines 35-37 last ran in, 0 for none
  call,               \* the call of a data_loader function: what it is given
  frame,              \* the locals of that call
  result,             \* what the call returned or raised
  now,                \* the clock of the server, in seconds
  cache,              \* the entries st.cache_data keeps for load_all_data
  session             \* the run of app.py in each browser session

vars == <<pc, env, entropy, code_verifier, code_challenge, initial_state, access_token,
          new_state, headers, interaction_id, interaction_token, response,
          location, auth_code, refresh_token, net, error, stdout, files,
          attempt, minted, call, frame, result, now, cache, session>>

pkce == <<entropy, code_verifier, code_challenge, initial_state>>
interaction == <<headers, interaction_id, interaction_token>>
output == <<stdout, files>>
history == <<attempt, minted>>
streamlit == <<now, cache, session>>
dashboard == <<call, frame, result, streamlit>>

\* no call of a data_loader function is under way
NoCall == [fn |-> "none"]
\* app.py is served to two browser sessions; no run of it has started
Sessions == {"A", "B"}
NotStarted ==
  [at |-> "idle", button |-> FALSE, pressed_at |-> 0, following |-> FALSE,
   fetched_at |-> 0, shown |-> <<>>]
NotServed == now = 0 /\ cache = <<>> /\ session = [s \in Sessions |-> NotStarted]
Idle == call = NoCall /\ frame = EmptyDict /\ result = EmptyDict /\ NotServed
FirstAttempt == attempt = 1 /\ minted = 0

NoError == [type |-> "none", line |-> 0]
Raise(type, line) == pc' = "FAILED" /\ error' = [type |-> type, line |-> line]
Goto(label) == pc' = label /\ error' = error

Init ==
  /\ pc = "START"
  /\ env \in Environments
  /\ entropy = <<>>
  /\ code_verifier = Unset /\ code_challenge = Unset /\ initial_state = Unset
  /\ access_token = Unset /\ new_state = Unset /\ headers = EmptyDict
  /\ interaction_id = Unset /\ interaction_token = Unset
  /\ response = Unset /\ location = Unset /\ auth_code = Unset
  /\ refresh_token = Unset
  /\ net = <<>> /\ error = NoError /\ stdout = <<>> /\ files = EmptyDict
  /\ FirstAttempt /\ Idle

(***************************************************************************)
(* The requests of the script, as built from the names bound so far.       *)
(***************************************************************************)
AuthorizeRequest ==
  [Request("GET", URLS.auth) EXCEPT !.params =
     [client_id |-> CLIENT_ID,
      redirect_uri |-> REDIRECT_URI,
      response_type |-> "code",
      scope |-> "openid profile email offline_access",
      state |-> initial_state,
      code_challenge |-> code_challenge,
      code_challenge_method |-> "S256"]]

BootstrapHeaders ==
  ("Authorization" :> Bearer(access_token)) @@ ("Content-Type" :> "application/json")

StartRequest ==
  [Request("POST", URLS.start) EXCEPT !.headers = BootstrapHeaders]

InteractionHeaders ==
  [interactionId |-> interaction_id, interactionToken |-> interaction_token]

\* the id of the response bound to `response`, as read at lines 76, 90 and 112
EnvelopeId_first(r) == net[4].msg.json.id
EnvelopeId(r) == r.json.id

\* the connection the third login step is posted to (line 109)
Step3Connection_default(r) == STANDARD_CONNECTION_ID
Step3Connection(r) == r.json.connectionId

\* "parameters" of the third login step (lines 120-123)
Step3Parameters_withCredentials ==
  [buttonType |-> "form-submit", buttonValue |-> "SIGNON",
   username |-> env.EMAIL, password |-> env.PASSWORD]
Step3Parameters == [buttonType |-> "form-submit", buttonValue |-> "SIGNON"]

\* "state" of the resume request (line 133)
ResumeState_initial == initial_state
ResumeState == new_state

\* "code_verifier" of the token request (line 148)
TokenVerifier_regenerated == CHOOSE v \in Verifiers : v # code_verifier
TokenVerifier == code_verifier

nextEvent ==
  [constructType |-> "skEvent", eventName |-> "continue", params |-> <<>>,
   eventType |-> "post", postProcess |-> EmptyDict]

Step1Request ==
  [Request("POST", LoginUrl(STANDARD_CONNECTION_ID)) EXCEPT
     !.headers = InteractionHeaders,
     !.json = [id |-> EnvelopeId(response),
               eventName |-> "continue",
               parameters |-> [eventType |-> "polling"],
               pollProps |-> [status |-> "continue", delayInMs |-> 10,
                              retriesAllowed |-> 1, pollChallengeStatus |-> FALSE]]]

Step2Request ==
  [Request("POST", LoginUrl(STANDARD_CONNECTION_ID)) EXCEPT
     !.headers = InteractionHeaders,
     !.json = [id |-> EnvelopeId(response),
               nextEvent |-> nextEvent,
               parameters |-> [buttonType |-> "form-submit",
                               buttonValue |-> "SIGNON",
                               username |-> env.EMAIL,
                               password |-> env.PASSWORD],
               eventName |-> "continue"]]

Step3Request ==
  [Request("POST", LoginUrl(Step3Connection(response))) EXCEPT
     !.headers = headers,
     !.json = [id |-> EnvelopeId(response),
               nextEvent |-> nextEvent,
               parameters |-> Step3Parameters,
               eventName |-> "continue"]]

ResumeRequest ==
  [Request("POST", URLS.resume) EXCEPT
     !.data = [dvResponse |-> response.json.dvResponse, state |-> ResumeState],
     !.allow_redirects = FALSE]

TokenRequest ==
  [Request("POST", URLS.token) EXCEPT
     !.data = [grant_type |-> "authorization_code",
               redirect_uri |-> REDIRECT_URI,
               code |-> auth_code,
               code_verifier |-> TokenVerifier,
               client_id |-> CLIENT_ID]]

MeRequest ==
  [Request("GET", URLS.me) EXCEPT
     !.headers = [x \in {"X-API-Authorization"} |-> Bearer(access_token)]]

TeamRequest ==
  [Request("GET", team_url) EXCEPT
     !.headers = [Authorization |-> Bearer(access_token)]]

(***************************************************************************)
(* The script, statement by statement.                                     *)
(***************************************************************************)
Send(ep, req) == net' = Append(net, ReqEvent(ep, req))
Recv(ep, r) == net' = Append(net, RespEvent(ep, r))
Has(r, key) == key \in DOMAIN r.json

\* lines 35-37
GeneratePKCE ==
  /\ pc = "START"
  /\ \E tok \in HandshakeEntropy, s \in StateTokens :
       /\ entropy' = tok
       /\ code_verifier' = generate_code_verifier(tok)
       /\ code_challenge' = generate_code_challenge(generate_code_verifier(tok))
       /\ initial_state' = s
  /\ minted' = attempt
  /\ Goto("PKCE_READY")
  /\ UNCHANGED <<dashboard, attempt, env, access_token, new_state, interaction, response, location,
                 auth_code, refresh_token, net, output>>

\* lines 42-51, the request
SendAuthorize ==
  /\ pc = "PKCE_READY"
  /\ Send("authorize", AuthorizeRequest)
  /\ Goto("AWAIT_PAGE")
  /\ UNCHANGED <<dashboard, history, env, pkce, access_token, new_state, interaction, response,
                 location, auth_code, refresh_token, output>>

\* lines 51-56, the response and the two scrapes
RecvAuthorize ==
  /\ pc = "AWAIT_PAGE"
  /\ \E auth_response \in AuthResponses :
       LET login_html == auth_response.text
           tok == ScrapeAccessToken(login_html)
           st == ScrapeState(login_html)
       IN /\ Recv("authorize", auth_response)
          /\ IF ~tok.matched
               THEN Raise("AttributeError", 54) /\ UNCHANGED <<access_token, new_state>>
             ELSE IF ~st.matched
               THEN /\ Raise("AttributeError", 56)
                    /\ access_token' = tok.group1
                    /\ UNCHANGED new_state
             ELSE /\ Goto("PAGE_FETCHED")
                  /\ access_token' = tok.group1
                  /\ new_state' = st.group1
  /\ UNCHANGED <<dashboard, history, env, pkce, interaction, response, location, auth_code,
                 refresh_token, output>>

\* lines 60-64, the request
SendStartPolicy ==
  /\ pc = "PAGE_FETCHED"
  /\ headers' = BootstrapHeaders
  /\ Send("start", StartRequest)
  /\ Goto("AWAIT_INTERACTION")
  /\ UNCHANGED <<dashboard, history, env, pkce, access_token, new_state, interaction_id,
                 interaction_token, response, location, auth_code,
                 refresh_token, output>>

\* lines 64-66, the response decoded and its two fields read
RecvStartPolicy ==
  /\ pc = "AWAIT_INTERACTION"
  /\ \E r \in StartResponses :
       /\ Recv("start", r)
       /\ IF ~r.isJson
            THEN /\ Raise("JSONDecodeError", 64)
                 /\ UNCHANGED <<response, interaction_id, interaction_token>>
          ELSE IF ~Has(r, "interactionId")
            THEN /\ Raise("KeyError", 65)
                 /\ response' = r
                 /\ UNCHANGED <<interaction_id, interaction_token>>
          ELSE IF ~Has(r, "interactionToken")
            THEN /\ Raise("KeyError", 66)
                 /\ response' = r
                 /\ interaction_id' = r.json.interactionId
                 /\ UNCHANGED interaction_token
          ELSE /\ Goto("INTERACTION_STARTED")
               /\ response' = r
               /\ interaction_id' = r.json.interactionId
               /\ interaction_token' = r.json.interactionToken
  /\ UNCHANGED <<dashboard, history, env, pkce, access_token, new_state, headers, location,
                 auth_code, refresh_token, output>>

\* login step 1 with response.get("id") in place of response["id"]
SendStep1_get ==
  /\ pc = "INTERACTION_STARTED"
  /\ Send("step1",
          [Request("POST", LoginUrl(STANDARD_CONNECTION_ID)) EXCEPT
             !.headers = InteractionHeaders,
             !.json = [id |-> IF Has(response, "id") THEN response.json.id ELSE "None",
                       eventName |-> "continue",
                       parameters |-> [eventType |-> "polling"]]])
  /\ Goto("AWAIT_STEP1")
  /\ UNCHANGED <<dashboard, history, env, pkce, access_token, new_state, interaction, response,
                 location, auth_code, refresh_token, output>>

\* lines 69-81, the request
SendStep1 ==
  /\ pc = "INTERACTION_STARTED"
  /\ IF ~Has(response, "id")
       THEN Raise("KeyError", 76) /\ UNCHANGED net
     ELSE Send("step1", Step1Request) /\ Goto("AWAIT_STEP1")
  /\ UNCHANGED <<dashboard, history, env, pkce, access_token, new_state, interaction, response,
                 location, auth_code, refresh_token, output>>

\* line 69, the response
RecvStep1 ==
  /\ pc = "AWAIT_STEP1"
  /\ \E r \in Step1Responses :
       /\ Recv("step1", r)
       /\ response' = r
  /\ Goto("STEP1_DONE")
  /\ UNCHANGED <<dashboard, history, env, pkce, access_token, new_state, interaction, location,
                 auth_code, refresh_token, output>>

\* lines 83-106, the request
SendStep2 ==
  /\ pc = "STEP1_DONE"
  /\ IF ~response.isJson
       THEN Raise("JSONDecodeError", 90) /\ UNCHANGED net
     ELSE IF ~Has(response, "id")
       THEN Raise("KeyError", 90) /\ UNCHANGED net
     ELSE Send("step2", Step2Request) /\ Goto("AWAIT_STEP2")
  /\ UNCHANGED <<dashboard, history, env, pkce, access_token, new_state, interaction, response,
                 location, auth_code, refresh_token, output>>

\* lines 83-106, the response decoded
RecvStep2 ==
  /\ pc = "AWAIT_STEP2"
  /\ \E r \in Step2Responses :
       /\ Recv("step2", r)
       /\ IF ~r.isJson
            THEN Raise("JSONDecodeError", 106) /\ UNCHANGED response
          ELSE Goto("STEP2_DONE") /\ response' = r
  /\ UNCHANGED <<dashboard, history, env, pkce, access_token, new_state, interaction, location,
                 auth_code, refresh_token, output>>

\* lines 108-126, the request
SendStep3 ==
  /\ pc = "STEP2_DONE"
  /\ IF ~Has(response, "connectionId")
       THEN Raise("KeyError", 109) /\ UNCHANGED net
     ELSE IF ~Has(response, "id")
       THEN Raise("KeyError", 112) /\ UNCHANGED net
     ELSE Send("step3", Step3Request) /\ Goto("AWAIT_STEP3")
  /\ UNCHANGED <<dashboard, history, env, pkce, access_token, new_state, interaction, response,
                 location, auth_code, refresh_token, output>>

\* line 108, the response
RecvStep3 ==
  /\ pc = "AWAIT_STEP3"
  /\ \E r \in Step3Responses :
       /\ Recv("step3", r)
       /\ response' = r
  /\ Goto("STEP3_DONE")
  /\ UNCHANGED <<dashboard, history, env, pkce, access_token, new_state, interaction, location,
                 auth_code, refresh_token, output>>

\* the resume request with .get("dvResponse") in place of ["dvResponse"]
SendResume_get ==
  /\ pc = "STEP3_DONE"
  /\ Send("resume",
          [Request("POST", URLS.resume) EXCEPT
             !.data = [dvResponse |-> IF Has(response, "dvResponse")
                                        THEN response.json.dvResponse ELSE "None",
                       state |-> new_state],
             !.allow_redirects = FALSE])
  /\ Goto("AWAIT_RESUME")
  /\ UNCHANGED <<dashboard, history, env, pkce, access_token, new_state, interaction, response,
                 location, auth_code, refresh_token, output>>

\* lines 129-136, the request
SendResume ==
  /\ pc = "STEP3_DONE"
  /\ IF ~response.isJson
       THEN Raise("JSONDecodeError", 132) /\ UNCHANGED net
     ELSE IF ~Has(response, "dvResponse")
       THEN Raise("KeyError", 132) /\ UNCHANGED net
     ELSE Send("resume", ResumeRequest) /\ Goto("AWAIT_RESUME")
  /\ UNCHANGED <<dashboard, history, env, pkce, access_token, new_state, interaction, response,
                 location, auth_code, refresh_token, output>>

\* lines 129-139, the response, its Location header and the code in it
RecvResume ==
  /\ pc = "AWAIT_RESUME"
  /\ \E r \in ResumeResponses :
       /\ Recv("resume", r)
       /\ response' = r
       /\ IF "Location" \notin DOMAIN r.headers
            THEN Raise("KeyError", 138) /\ UNCHANGED <<location, auth_code>>
          ELSE LET m == SearchCode(r.headers.Location)
               IN /\ location' = r.headers.Location
                  /\ IF ~m.matched
                       THEN Raise("AttributeError", 139) /\ UNCHANGED auth_code
                     ELSE Goto("RESUMED") /\ auth_code' = m.group1
  /\ UNCHANGED <<dashboard, history, env, pkce, access_token, new_state, interaction,
                 refresh_token, output>>

\* the token request issued without waiting for the resume response
SendToken_noWait ==
  /\ pc \in {"AWAIT_RESUME", "RESUMED"}
  /\ Send("token", TokenRequest)
  /\ Goto("AWAIT_TOKEN")
  /\ UNCHANGED <<dashboard, history, env, pkce, access_token, new_state, interaction, response,
                 location, auth_code, refresh_token, output>>

\* lines 142-151, the request
SendToken ==
  /\ pc = "RESUMED"
  /\ Send("token", TokenRequest)
  /\ Goto("AWAIT_TOKEN")
  /\ UNCHANGED <<dashboard, history, env, pkce, access_token, new_state, interaction, response,
                 location, auth_code, refresh_token, output>>

\* the token pair read with .get("refresh_token")
RecvToken_partial ==
  /\ pc = "AWAIT_TOKEN"
  /\ \E r \in TokenResponses :
       /\ Recv("token", r)
       /\ response' = r
       /\ IF ~r.isJson
            THEN Raise("JSONDecodeError", 153) /\ UNCHANGED <<access_token, refresh_token>>
          ELSE IF ~Has(r, "access_token")
            THEN Raise("KeyError", 153) /\ UNCHANGED <<access_token, refresh_token>>
          ELSE /\ Goto("TOKEN_EXCHANGED")
               /\ access_token' = r.json.access_token
               /\ refresh_token' = IF Has(r, "refresh_token")
                                     THEN r.json.refresh_token ELSE "None"
  /\ UNCHANGED <<dashboard, history, env, pkce, new_state, interaction, location, auth_code, output>>

\* lines 142-154, the response and the token pair read from it
RecvToken ==
  /\ pc = "AWAIT_TOKEN"
  /\ \E r \in TokenResponses :
       /\ Recv("token", r)
       /\ response' = r
       /\ IF ~r.isJson
            THEN Raise("JSONDecodeError", 153) /\ UNCHANGED <<access_token, refresh_token>>
          ELSE IF ~Has(r, "access_token")
            THEN Raise("KeyError", 153) /\ UNCHANGED <<access_token, refresh_token>>
          ELSE IF ~Has(r, "refresh_token")
            THEN /\ Raise("KeyError", 154)
                 /\ access_token' = r.json.access_token
                 /\ UNCHANGED refresh_token
          ELSE /\ Goto("TOKEN_EXCHANGED")
               /\ access_token' = r.json.access_token
               /\ refresh_token' = r.json.refresh_token
  /\ UNCHANGED <<dashboard, history, env, pkce, new_state, interaction, location, auth_code, output>>

\* line 156, the request
SendMe ==
  /\ pc = "TOKEN_EXCHANGED"
  /\ Send("me", MeRequest)
  /\ Goto("AWAIT_ME")
  /\ UNCHANGED <<dashboard, history, env, pkce, access_token, new_state, interaction, response,
                 location, auth_code, refresh_token, output>>

\* line 156, the response
RecvMe ==
  /\ pc = "AWAIT_ME"
  /\ \E r \in MeResponses :
       /\ Recv("me", r)
       /\ response' = r
  /\ Goto("ME_FETCHED")
  /\ UNCHANGED <<dashboard, history, env, pkce, access_token, new_state, interaction, location,
                 auth_code, refresh_token, output>>

\* the banner followed by a print of api_headers
SendTeam_debug ==
  /\ pc = "ME_FETCHED"
  /\ stdout' = stdout \o
       << <<"--- Making a new request for specific team data ---">>,
          <<"Authorization", Bearer(access_token)>> >>
  /\ Send("team", TeamRequest)
  /\ Goto("AWAIT_TEAM")
  /\ UNCHANGED <<dashboard, history, env, pkce, access_token, new_state, interaction, response,
                 location, auth_code, refresh_token, files>>

\* lines 160-172, the banner and the request
SendTeam ==
  /\ pc = "ME_FETCHED"
  /\ stdout' = Append(stdout, <<"--- Making a new request for specific team data ---">>)
  /\ Send("team", TeamRequest)
  /\ Goto("AWAIT_TEAM")
  /\ UNCHANGED <<dashboard, history, env, pkce, access_token, new_state, interaction, response,
                 location, auth_code, refresh_token, files>>

\* lines 172-189, the response saved or reported
RecvTeam ==
  /\ pc = "AWAIT_TEAM"
  /\ \E my_team_response \in TeamResponses :
       /\ Recv("team", my_team_response)
       /\ IF my_team_response.status_code = 200
            THEN IF ~my_team_response.isJson
                   THEN Raise("JSONDecodeError", 180) /\ UNCHANGED output
                 ELSE /\ Goto("DONE")
                      /\ files' = [f \in {"arnav_team.json"} |-> my_team_response.json]
                      /\ stdout' = Append(stdout,
                           <<"Successfully saved data for team ID", team_id,
                             "to arnav_team.json">>)
          ELSE /\ Goto("DONE")
               /\ stdout' = stdout \o
                    << <<"Failed to fetch team data. Status code:",
                         my_team_response.status_code>>,
                       <<"Response:", my_team_response.text>> >>
               /\ UNCHANGED files
  /\ UNCHANGED <<dashboard, history, env, pkce, access_token, new_state, interaction, response,
                 location, auth_code, refresh_token>>

AwaitLine ==
  [AWAIT_PAGE |-> 51, AWAIT_INTERACTION |-> 64, AWAIT_STEP1 |-> 69,
   AWAIT_STEP2 |-> 83, AWAIT_STEP3 |-> 108, AWAIT_RESUME |-> 129,
   AWAIT_TOKEN |-> 142, AWAIT_ME |-> 156, AWAIT_TEAM |-> 172]
AwaitEndpoint ==
  [AWAIT_PAGE |-> "authorize", AWAIT_INTERACTION |-> "start", AWAIT_STEP1 |-> "step1",
   AWAIT_STEP2 |-> "step2", AWAIT_STEP3 |-> "step3", AWAIT_RESUME |-> "resume",
   AWAIT_TOKEN |-> "token", AWAIT_ME |-> "me", AWAIT_TEAM |-> "team"]

\* a session call that is issued again after it raised
TransportFailure_retry ==
  /\ pc \in DOMAIN AwaitLine
  /\ net' = Append(net, ExcEvent(AwaitEndpoint[pc]))
  /\ pc' = [AWAIT_PAGE |-> "PKCE_READY", AWAIT_INTERACTION |-> "PAGE_FETCHED",
            AWAIT_STEP1 |-> "INTERACTION_STARTED", AWAIT_STEP2 |-> "STEP1_DONE",
            AWAIT_STEP3 |-> "STEP2_DONE", AWAIT_RESUME |-> "STEP3_DONE",
            AWAIT_TOKEN |-> "RESUMED", AWAIT_ME |-> "TOKEN_EXCHANGED",
            AWAIT_TEAM |-> "ME_FETCHED"][pc]
  /\ UNCHANGED <<error, dashboard, history, env, pkce, access_token, new_state, interaction, response,
                 location, auth_code, refresh_token, output>>

\* a session.get/post that raises instead of returning (connection error)
TransportFailure ==
  /\ pc \in DOMAIN AwaitLine
  /\ net' = Append(net, ExcEvent(AwaitEndpoint[pc]))
  /\ Raise("RequestsError", AwaitLine[pc])
  /\ UNCHANGED <<dashboard, history, env, pkce, access_token, new_state, interaction, response,
                 location, auth_code, refresh_token, output>>

Next ==
  \/ GeneratePKCE
  \/ SendAuthorize \/ RecvAuthorize
  \/ SendStartPolicy \/ RecvStartPolicy
  \/ SendStep1 \/ RecvStep1
  \/ SendStep2 \/ RecvStep2
  \/ SendStep3 \/ RecvStep3
  \/ SendResume \/ RecvResume
  \/ SendToken \/ RecvToken
  \/ SendMe \/ RecvMe
  \/ SendTeam \/ RecvTeam
  \/ TransportFailure

Spec == Init /\ [][Next]_vars

(***************************************************************************)
(* The script executed again and again, each execution followed up to the  *)
(* authorization page.  Nothing of an execution outlives its process but   *)
(* the files it wrote.                                                     *)
(***************************************************************************)
\* an execution that starts where the last one stood, PKCE material kept
Restart_keepPkce ==
  /\ pc # "START"
  /\ attempt < MaxAttempts
  /\ attempt' = attempt + 1
  /\ pc' = "PKCE_READY" /\ error' = NoError
  /\ access_token' = Unset /\ new_state' = Unset /\ headers' = EmptyDict
  /\ interaction_id' = Unset /\ interaction_token' = Unset
  /\ response' = Unset /\ location' = Unset /\ auth_code' = Unset
  /\ refresh_token' = Unset
  /\ net' = <<>> /\ stdout' = <<>>
  /\ UNCHANGED <<dashboard, minted, env, pkce, files>>

\* the script is run again: a new process, every name unbound
Restart ==
  /\ pc # "START"
  /\ attempt < MaxAttempts
  /\ attempt' = attempt + 1
  /\ pc' = "START" /\ error' = NoError
  /\ entropy' = <<>>
  /\ code_verifier' = Unset /\ code_challenge' = Unset /\ initial_state' = Unset
  /\ access_token' = Unset /\ new_state' = Unset /\ headers' = EmptyDict
  /\ interaction_id' = Unset /\ interaction_token' = Unset
  /\ response' = Unset /\ location' = Unset /\ auth_code' = Unset
  /\ refresh_token' = Unset
  /\ net' = <<>> /\ stdout' = <<>>
  /\ UNCHANGED <<dashboard, minted, env, files>>

NextAttempts ==
  \/ GeneratePKCE
  \/ SendAuthorize
  \/ RecvAuthorize
  \/ TransportFailure
  \/ Restart
SpecAttempts == Init /\ [][NextAttempts]_vars

(***************************************************************************)
(* utils/data_loader.py: load_player_data and load_fixtures_data.  The two *)
(* functions differ in their URL and in one word of their messages.        *)
(***************************************************************************)
HandshakeNotRun ==
  /\ pc = "NOT_RUN"
  /\ env \in Environments
  /\ entropy = <<>>
  /\ code_verifier = Unset /\ code_challenge = Unset /\ initial_state = Unset
  /\ access_token = Unset /\ new_state = Unset /\ headers = EmptyDict
  /\ interaction_id = Unset /\ interaction_token = Unset
  /\ response = Unset /\ location = Unset /\ auth_code = Unset
  /\ refresh_token = Unset
  /\ net = <<>> /\ error = NoError /\ stdout = <<>> /\ files = EmptyDict
  /\ FirstAttempt
handshake ==
  <<pc, env, pkce, access_token, new_state, interaction, response, location,
    auth_code, refresh_token, net, error, output, history>>

PLAYER_URL == "https://fantasy.premierleague.com/api/bootstrap-static/"
FIXTURES_URL == "https://fantasy.premierleague.com/api/fixtures/"
Loaders ==
  [load_player_data |-> [url |-> PLAYER_URL, noun |-> "player"],
   load_fixtures_data |-> [url |-> FIXTURES_URL, noun |-> "fixture"]]

\* the exception classes requests.get, raise_for_status and json can raise,
\* each with the classes it is an instance of
ExceptionBases ==
  [HTTPError |-> {"HTTPError", "RequestException", "OSError", "Exception"},
   ConnectionError |-> {"ConnectionError", "RequestException", "OSError", "Exception"},
   ConnectTimeout |-> {"ConnectTimeout", "ConnectionError", "Timeout",
                       "RequestException", "OSError", "Exception"},
   ReadTimeout |-> {"ReadTimeout", "Timeout", "RequestException", "OSError", "Exception"},
   TooManyRedirects |-> {"TooManyRedirects", "RequestException", "OSError", "Exception"},
   JSONDecodeError |-> {"JSONDecodeError", "InvalidJSONError", "RequestException",
                        "OSError", "ValueError", "Exception"}]
isinstance(exc, class) == class \in ExceptionBases[exc]

\* what requests.get(url, timeout=10, headers=HEADERS) does: it raises, or
\* it returns a response
GetRaises == {"ConnectionError", "ConnectTimeout", "ReadTimeout", "TooManyRedirects"}
Statuses == {200, 204, 304, 400, 401, 404, 429, 500, 503}
Bodies ==
  { [isJson |-> TRUE, json |-> [teams |-> "t", elements |-> "e"]],
    [isJson |-> TRUE, json |-> [event |-> "1", team_h |-> "h"]],
    [isJson |-> FALSE, json |-> EmptyDict] }
GetOutcomes ==
  {[raises |-> e, status_code |-> 0, body |-> [isJson |-> FALSE, json |-> EmptyDict]] :
     e \in GetRaises}
    \cup {[raises |-> "", status_code |-> st, body |-> b] : st \in Statuses, b \in Bodies}
LoaderCalls ==
  {[fn |-> f, url |-> Loaders[f].url, get |-> o] : f \in DOMAIN Loaders, o \in GetOutcomes}

InitLoader ==
  /\ HandshakeNotRun
  /\ call \in LoaderCalls
  /\ frame = [at |-> "get", exc |-> ""]
  /\ result = EmptyDict
  /\ NotServed

\* lines 38 and 64: requests.get
LoadGet ==
  /\ frame.at = "get"
  /\ frame' = IF call.get.raises # ""
                THEN [at |-> "except", exc |-> call.get.raises]
              ELSE [at |-> "raise_for_status", exc |-> ""]
  /\ UNCHANGED <<streamlit, handshake, call, result>>

\* lines 39 and 65: response.raise_for_status()
LoadRaiseForStatus ==
  /\ frame.at = "raise_for_status"
  /\ frame' = IF call.get.status_code \in 400..599
                THEN [at |-> "except", exc |-> "HTTPError"]
              ELSE [at |-> "json", exc |-> ""]
  /\ UNCHANGED <<streamlit, handshake, call, result>>

\* lines 40-41 and 66-67: response.json() and the return
LoadJson ==
  /\ frame.at = "json"
  /\ IF call.get.body.isJson
       THEN /\ result' = [kind |-> "return", value |-> call.get.body.json]
            /\ frame' = [at |-> "done", exc |-> ""]
     ELSE /\ frame' = [at |-> "except", exc |-> "JSONDecodeError"]
          /\ UNCHANGED result
  /\ UNCHANGED <<streamlit, handshake, call>>

\* the except clauses without the last one
Handlers_noCatchAll ==
  << [class |-> "HTTPError", message |-> "HTTP error occurred while fetching"],
     [class |-> "Timeout", message |-> "Request timed out while fetching"] >>

\* lines 42-47 and 68-73: the except clauses, in order
Handlers ==
  << [class |-> "HTTPError", message |-> "HTTP error occurred while fetching"],
     [class |-> "Timeout", message |-> "Request timed out while fetching"],
     [class |-> "Exception", message |-> "An error occurred while fetching"] >>

\* lines 42-47 and 68-73: the first clause the exception is an instance of
\* raises RuntimeError; with no such clause the exception leaves the function
LoadExcept ==
  /\ frame.at = "except"
  /\ LET clauses == {i \in DOMAIN Handlers : isinstance(frame.exc, Handlers[i].class)}
     IN result' =
          IF clauses = {}
            THEN [kind |-> "raise", type |-> frame.exc,
                  message |-> <<"", "", frame.exc>>]
          ELSE [kind |-> "raise", type |-> "RuntimeError",
                message |-> <<Handlers[Min(clauses)].message, Loaders[call.fn].noun,
                              frame.exc>>]
  /\ frame' = [at |-> "done", exc |-> frame.exc]
  /\ UNCHANGED <<streamlit, handshake, call>>

NextLoader == LoadGet \/ LoadRaiseForStatus \/ LoadJson \/ LoadExcept
SpecLoader == InitLoader /\ [][NextLoader]_vars

(***************************************************************************)
(* utils/data_loader.py: the fixtures table, the per-team fixture tables   *)
(* and the league table, computed one after the other as load_all_data of  *)
(* app.py does.  A DataFrame is the sequence of its rows.                  *)
(***************************************************************************)
None == -1          \* the score of a match not played yet, no number of goals
POSITIONS == 20     \* range(1, 21)

pl_teams_list ==
  <<"Arsenal", "Aston Villa", "Bournemouth", "Brentford", "Brighton",
    "Burnley", "Chelsea", "Crystal Palace", "Everton", "Fulham",
    "Leeds", "Liverpool", "Man City", "Man Utd", "Newcastle",
    "Nott'm Forest", "Spurs", "Sunderland", "West Ham", "Wolves">>

digits == <<"0", "1", "2", "3", "4", "5", "6", "7", "8", "9">>
RECURSIVE str(_)
\* str(n) of a number, str(None)
str(n) ==
  IF n = None THEN "None"
  ELSE IF n < 10 THEN digits[n + 1]
  ELSE str(n \div 10) \o digits[(n % 10) + 1]
\* what a call that can raise gives: a value, or the exception
Returns(v) == [value |-> v]
Raise_(type) == [raise |-> type]
Raises(r) == "raise" \in DOMAIN r
\* int(c) of a one-character string: its value, or ValueError
int(c) ==
  IF \E d \in 0..9 : digits[d + 1] = c
    THEN Returns(CHOOSE d \in 0..9 : digits[d + 1] = c)
  ELSE Raise_("ValueError")
\* s[i], i counted from 0
CharAt(s, i) == SubSeq(s, i + 1, i + 1)

\* a match of fixtures_json: the keys return_fixtures_df reads
Match_(gw, h, a, hs, as) ==
  [event |-> gw, team_h |-> h, team_a |-> a, team_h_difficulty |-> 2,
   team_a_difficulty |-> 4, team_h_score |-> hs, team_a_score |-> as]
\* the last gameweek: every team plays, nothing is played yet
LastGameweek ==
  [k \in 1..10 |-> Match_(38, pl_teams_list[2 * k - 1], pl_teams_list[2 * k], None, None)]
Pairings == {<<1, 2>>, <<3, 1>>}
Scores == {<<0, 3>>, <<1, 1>>, <<2, 1>>, <<2, 10>>, <<10, 0>>}
EarlierMatches ==
  {Match_(1, pl_teams_list[p[1]], pl_teams_list[p[2]], None, None) : p \in Pairings}
    \cup {Match_(1, pl_teams_list[p[1]], pl_teams_list[p[2]], sc[1], sc[2]) :
            p \in Pairings, sc \in Scores}
FixturesJsons == {ms \o LastGameweek : ms \in SeqsUpTo(EarlierMatches, MaxFixtures)}

\* lines 395-416: the row of a match, its Score text included
FixtureRow(match) ==
  LET score == str(match.team_h_score) \o " : " \o str(match.team_a_score)
  IN [Gameweek |-> match.event,
      HomeTeam |-> match.team_h,
      HomeTeamDifficulty |-> match.team_h_difficulty,
      AwayTeam |-> match.team_a,
      AwayTeamDifficulty |-> match.team_a_difficulty,
      Score |-> IF score = "None : None" THEN "Yet to Happen" ELSE score]
\* return_fixtures_df, the columns the tables are built from
return_fixtures_df(fixtures_json) ==
  [i \in DOMAIN fixtures_json |-> FixtureRow(fixtures_json[i])]

\* line 449 with the home fixtures only
TeamFixtures_homeOnly(fixtures_df, team) ==
  SelectSeq(fixtures_df, LAMBDA game : game.HomeTeam = team)

\* line 449: the rows of the team, re-indexed
TeamFixtures(fixtures_df, team) ==
  SelectSeq(fixtures_df, LAMBDA game : game.HomeTeam = team \/ game.AwayTeam = team)

\* lines 453-472: the row of one game in the table of a team
GwDict(game, team) ==
  LET home == game.HomeTeam = team
      difficulty == IF home THEN game.HomeTeamDifficulty ELSE game.AwayTeamDifficulty
  IN [GameWeek |-> game.Gameweek,
      Opponent |-> IF home THEN game.AwayTeam ELSE game.HomeTeam,
      Venue |-> IF home THEN "Home" ELSE "Away",
      FixtureDifficultyRating |-> difficulty,
      Score |-> game.Score]

\* lines 435-478
create_team_fixtures_database(fixtures_df, team_list) ==
  [team \in {team_list[i] : i \in DOMAIN team_list} |->
     LET team_fixtures == TeamFixtures(fixtures_df, team)
     IN [gw \in DOMAIN team_fixtures |-> GwDict(team_fixtures[gw], team)]]

\* lines 481-506: the table of a team with its Game Week and Fixture
\* Difficulty Rating columns turned into text; an empty table has no such
\* columns
get_team_fixtures(team, team_fixtures_database) ==
  LET team_df == team_fixtures_database[team]
  IN IF team_df = <<>> THEN Raise_("KeyError")
     ELSE Returns([gw \in DOMAIN team_df |->
                     [team_df[gw] EXCEPT !.GameWeek = str(@),
                                         !.FixtureDifficultyRating = str(@)]])

\* lines 526-532
result_checker(scored, conceded) ==
  IF scored > conceded THEN <<3, "Wins">>
  ELSE IF scored < conceded THEN <<0, "Losses">>
  ELSE <<1, "Draws">>

\* line 565: team_dict['Matches Played'] = i
MatchesPlayed(team_dict, i) == i

\* lines 554-572: one turn of the loop over the fixtures of a team
Tally(team_dict, i, match) ==
  IF match.Score = "Yet to Happen" THEN team_dict
  ELSE LET score == match.Score
           first == int(CharAt(score, 0))
           fifth == int(CharAt(score, 4))
       IN IF match.Venue = "Away" /\ Raises(fifth) THEN fifth
          ELSE IF Raises(first) THEN first
          ELSE IF Raises(fifth) THEN fifth
          ELSE LET goals_scored ==
                     IF match.Venue = "Away" THEN fifth.value ELSE first.value
                   goals_conceded ==
                     IF match.Venue = "Away" THEN first.value ELSE fifth.value
                   checked == result_checker(goals_scored, goals_conceded)
               IN [team_dict EXCEPT
                     !.MatchesPlayed = MatchesPlayed(team_dict, i),
                     !.GoalsScored = @ + goals_scored,
                     !.GoalsConceded = @ + goals_conceded,
                     !.GoalDifference = @ + (goals_scored - goals_conceded),
                     ![checked[2]] = @ + 1,
                     !.Points = @ + checked[1]]

RECURSIVE TallyFrom(_, _, _)
\* lines 553-572: the loop, from its i-th turn on
TallyFrom(team_dict, i, team_fixt) ==
  IF i > Len(team_fixt) \/ Raises(team_dict) THEN team_dict
  ELSE TallyFrom(Tally(team_dict, i, team_fixt[i]), i + 1, team_fixt)

\* lines 537-574: the row of a team in the league table
TeamDict(team, team_fixtures_database) ==
  LET team_fixt == get_team_fixtures(team, team_fixtures_database)
  IN IF Raises(team_fixt) THEN team_fixt
     ELSE TallyFrom([Team |-> team, MatchesPlayed |-> 0, Wins |-> 0, Draws |-> 0,
                     Losses |-> 0, GoalsScored |-> 0, GoalsConceded |-> 0,
                     Points |-> 0, GoalDifference |-> 0],
                    1, team_fixt.value)

\* the order of line 578 with Points alone
Above_pointsOnly(a, b) == a.Points > b.Points

\* line 578: by=['Points', 'Goal Difference'], ascending=False
Above(a, b) ==
  \/ a.Points > b.Points
  \/ a.Points = b.Points /\ a.GoalDifference > b.GoalDifference

RECURSIVE sort_values(_)
\* line 578: sort_values, which keeps rows of equal keys in their order: a
\* row goes below the rows before it that it is not above
sort_values(rows) ==
  IF rows = <<>> THEN <<>>
  ELSE LET n == Len(rows)
           sorted == sort_values(SubSeq(rows, 1, n - 1))
           stay == Cardinality({k \in DOMAIN sorted : ~Above(rows[n], sorted[k])})
       IN SubSeq(sorted, 1, stay) \o <<rows[n]>> \o SubSeq(sorted, stay + 1, n - 1)

RECURSIVE TeamDicts(_, _, _)
\* lines 535-574: the loop over the teams, up to its t-th turn; the loop ends
\* at the first exception
TeamDicts(teams_list, t, team_fixtures_database) ==
  IF t = 0 THEN <<>>
  ELSE LET before == TeamDicts(teams_list, t - 1, team_fixtures_database)
       IN IF before # <<>> /\ Raises(before[Len(before)]) THEN before
          ELSE Append(before, TeamDict(teams_list[t], team_fixtures_database))

\* lines 508-597: the table, or the exception that ends the call
build_pl_table(teams_list, team_fixtures_database) ==
  LET pl_table_list == TeamDicts(teams_list, Len(teams_list), team_fixtures_database)
      last == Len(pl_table_list)
  IN IF last > 0 /\ Raises(pl_table_list[last])
       THEN [kind |-> "raise", type |-> pl_table_list[last].raise, team |-> last]
     ELSE IF Len(pl_table_list) # POSITIONS
       THEN [kind |-> "raise", type |-> "ValueError", team |-> Len(teams_list)]
     ELSE LET sorted == sort_values(pl_table_list)
          IN [kind |-> "return", team |-> Len(teams_list),
              value |-> [k \in DOMAIN sorted |->
                           [Position |-> k, Team |-> sorted[k].Team,
                            MatchesPlayed |-> sorted[k].MatchesPlayed,
                            Wins |-> sorted[k].Wins, Draws |-> sorted[k].Draws,
                            Losses |-> sorted[k].Losses,
                            GoalsScored |-> sorted[k].GoalsScored,
                            GoalsConceded |-> sorted[k].GoalsConceded,
                            Points |-> sorted[k].Points,
                            GoalDifference |-> sorted[k].GoalDifference]]]

InitTable ==
  /\ HandshakeNotRun
  /\ call \in {[fn |-> "load_all_data", fixtures_json |-> fj] : fj \in FixturesJsons}
  /\ frame = [at |-> "fixtures_json"]
  /\ result = EmptyDict
  /\ NotServed

\* app.py line 33
ReturnFixturesDf ==
  /\ frame.at = "fixtures_json"
  /\ frame' = [at |-> "fixtures_df",
               fixtures_df |-> return_fixtures_df(call.fixtures_json)]
  /\ UNCHANGED <<streamlit, handshake, call, result>>

\* app.py line 34
CreateTeamFixturesDatabase ==
  /\ frame.at = "fixtures_df"
  /\ frame' = [at |-> "fixtures_database",
               fixtures_df |-> frame.fixtures_df,
               fixtures_database |->
                 create_team_fixtures_database(frame.fixtures_df, pl_teams_list)]
  /\ UNCHANGED <<streamlit, handshake, call, result>>

\* app.py line 37; get_team_fixtures rewrites the two columns of the tables
\* it was asked for
BuildPlTable ==
  /\ frame.at = "fixtures_database"
  /\ LET built == build_pl_table(pl_teams_list, frame.fixtures_database)
         asked == {pl_teams_list[t] : t \in 1..built.team}
     IN /\ result' = built
        /\ frame' = [frame EXCEPT
             !.at = "pl_table",
             !.fixtures_database =
               [team \in DOMAIN @ |->
                  IF team \in asked /\ @[team] # <<>>
                    THEN get_team_fixtures(team, @).value ELSE @[team]]]
  /\ UNCHANGED <<streamlit, handshake, call>>

NextTable == ReturnFixturesDf \/ CreateTeamFixturesDatabase \/ BuildPlTable
SpecTable == InitTable /\ [][NextTable]_vars

(***************************************************************************)
(* app.py: the script Streamlit runs from top to bottom for a session at   *)
(* its first load and after every interaction.  st.cache_data keeps one    *)
(* entry for load_all_data, shared by the sessions, for ttl seconds after  *)
(* it was stored, and lets one session at a time compute a missing entry.  *)
(***************************************************************************)
TTL == 900          \* ttl=900
MaxWaits == 2       \* how many times half a ttl passes
MaxPresses == 2     \* how many times Refresh Data is pressed

\* a press takes a second of the clock, a wait half a ttl
Waits == now \div (TTL \div 2)
Presses == now % (TTL \div 2)

\* lines 39-61: what load_all_data returns, each table from the responses
\* fetched by this call
Data(fetched_at) ==
  [fetched_at |-> fetched_at, player_df |-> fetched_at,
   fixtures_df |-> fetched_at, pl_table_df |-> fetched_at]
\* lines 69-90 and what follows: the caption and the tables of the page
Render(data) ==
  <<[fresh |-> data.fetched_at, player_df |-> data.player_df,
     fixtures_df |-> data.fixtures_df, pl_table_df |-> data.pl_table_df]>>
\* line 21: an entry is served for ttl seconds after it was stored
Cached == cache # <<>> /\ now < cache[1].stored_at + TTL
Loading == {s \in Sessions : session[s].at = "load"}

InitApp == HandshakeNotRun /\ Idle

\* the page is opened, or a widget other than the button is used: the
\* script runs, st.button gives False
Interact(s) ==
  /\ session[s].at \in {"idle", "done", "error"}
  /\ session' = [session EXCEPT ![s].at = "run", ![s].button = FALSE,
                                 ![s].following = FALSE]
  /\ UNCHANGED <<handshake, call, frame, result, now, cache>>

\* Refresh Data is pressed on a page that shows the button: the script runs,
\* st.button gives True
Press(s) ==
  /\ session[s].at \in {"done", "error"}
  /\ Presses < MaxPresses
  /\ session' = [session EXCEPT ![s].at = "run", ![s].button = TRUE,
                                 ![s].following = FALSE, ![s].pressed_at = now]
  /\ now' = now + 1
  /\ UNCHANGED <<handshake, call, frame, result, cache>>

\* lines 63-65: load_all_data.clear() and st.rerun()
RefreshData(s) ==
  /\ session[s].at = "run" /\ session[s].button
  /\ cache' = <<>>
  /\ session' = [session EXCEPT ![s].button = FALSE, ![s].following = TRUE]
  /\ UNCHANGED <<handshake, call, frame, result, now>>

\* line 67 with an entry to serve, and the rest of the script
CacheHit(s) ==
  /\ session[s].at = "run" /\ ~session[s].button
  /\ Cached
  /\ session' = [session EXCEPT ![s].at = "done",
                                 ![s].shown = Render(cache[1].value)]
  /\ UNCHANGED <<handshake, call, frame, result, now, cache>>

\* line 67 with no entry to serve: load_all_data is called, line 23
CacheMiss(s) ==
  /\ session[s].at = "run" /\ ~session[s].button
  /\ ~Cached
  /\ Loading = {}
  /\ session' = [session EXCEPT ![s].at = "load", ![s].fetched_at = now]
  /\ UNCHANGED <<handshake, call, frame, result, now, cache>>

\* lines 39-61: load_all_data returns, the value is stored, and the rest of
\* the script
Return(s) ==
  /\ session[s].at = "load"
  /\ cache' = <<[stored_at |-> now, value |-> Data(session[s].fetched_at)]>>
  /\ session' = [session EXCEPT ![s].at = "done",
                                 ![s].shown = Render(Data(session[s].fetched_at))]
  /\ UNCHANGED <<handshake, call, frame, result, now>>

\* lines 24-37: a loader raises RuntimeError or build_pl_table ValueError;
\* nothing is stored and the script ends
RaiseInLoad(s) ==
  /\ session[s].at = "load"
  /\ session' = [session EXCEPT ![s].at = "error", ![s].shown = <<>>]
  /\ UNCHANGED <<handshake, call, frame, result, now, cache>>

\* half a ttl passes while no fetch is under way
Wait ==
  /\ Loading = {}
  /\ Waits < MaxWaits
  /\ now' = now + (TTL \div 2)
  /\ UNCHANGED <<handshake, call, frame, result, cache, session>>

NextApp ==
  \/ \E s \in Sessions :
       \/ Interact(s) \/ Press(s) \/ RefreshData(s)
       \/ CacheHit(s) \/ CacheMiss(s) \/ Return(s) \/ RaiseInLoad(s)
  \/ Wait
SpecApp == InitApp /\ [][NextApp]_vars

(***************************************************************************)
(* The two PKCE functions on their own: the random bytes are drawn first,  *)
(* then lines 35 and 36 apply the functions to them.                       *)
(***************************************************************************)
InitPkce ==
  /\ pc = "DRAWN"
  /\ env \in Environments
  /\ entropy \in Entropy
  /\ code_verifier = Unset /\ code_challenge = Unset /\ initial_state = Unset
  /\ access_token = Unset /\ new_state = Unset /\ headers = EmptyDict
  /\ interaction_id = Unset /\ interaction_token = Unset
  /\ response = Unset /\ location = Unset /\ auth_code = Unset
  /\ refresh_token = Unset
  /\ net = <<>> /\ error = NoError /\ stdout = <<>> /\ files = EmptyDict
  /\ FirstAttempt /\ Idle

\* line 35
ApplyVerifier ==
  /\ pc = "DRAWN"
  /\ code_verifier' = generate_code_verifier(entropy)
  /\ Goto("VERIFIER")
  /\ UNCHANGED <<dashboard, history, env, entropy, code_challenge, initial_state, access_token,
                 new_state, interaction, response, location, auth_code,
                 refresh_token, net, output>>

\* line 36
ApplyChallenge ==
  /\ pc = "VERIFIER"
  /\ code_challenge' = generate_code_challenge(code_verifier)
  /\ Goto("CHALLENGE")
  /\ UNCHANGED <<dashboard, history, env, entropy, code_verifier, initial_state, access_token,
                 new_state, interaction, response, location, auth_code,
                 refresh_token, net, output>>

NextPkce == ApplyVerifier \/ ApplyChallenge
SpecPkce == InitPkce /\ [][NextPkce]_vars

(***************************************************************************)
(* Vocabulary of the properties.                                           *)
(***************************************************************************)
HandshakeOrder ==
  <<"authorize", "start", "step1", "step2", "step3", "resume", "token">>
CallOrder == HandshakeOrder \o <<"me", "team">>
LoginSteps == {"step1", "step2", "step3"}

Sent(ep) == {i \in DOMAIN net : net[i].kind = "request" /\ net[i].ep = ep}
Received(ep) == {i \in DOMAIN net : net[i].kind = "response" /\ net[i].ep = ep}
Raised == {i \in DOMAIN net : net[i].kind = "exception"}

\* the URLs an endpoint of the provider is reached at
ConnectionIds == {STANDARD_CONNECTION_ID, "c2"}
EndpointUrls(ep) ==
  IF ep \in LoginSteps THEN {LoginUrl(c) : c \in ConnectionIds}
  ELSE IF ep = "authorize" THEN {URLS.auth}
  ELSE IF ep = "start" THEN {URLS.start}
  ELSE IF ep = "resume" THEN {URLS.resume}
  ELSE IF ep = "token" THEN {URLS.token}
  ELSE IF ep = "me" THEN {URLS.me}
  ELSE {team_url}

\* ---- the deterministic stubs of the end-to-end scenario
StubPage ==
  [fields |-> <<Field("accessToken", "tok1")>>,
   inputs |-> << <<Attr("name", "state"), Attr("value", "st2")>> >>]
StubResponse ==
  [authorize |-> Resp(200, StubPage, FALSE, EmptyDict, EmptyDict),
   start |-> JsonResp(200, [interactionId |-> "i1", interactionToken |-> "it1",
                            id |-> "e1"]),
   step1 |-> JsonResp(200, [id |-> "e2"]),
   step2 |-> JsonResp(200, [id |-> "e3", connectionId |-> "c2"]),
   step3 |-> JsonResp(200, [dvResponse |-> "dv1"]),
   resume |-> Resp(302, "", FALSE, EmptyDict,
                   [Location |-> <<"https://x/", "?", "code", "=", "AUTH9">>]),
   token |-> JsonResp(200, [access_token |-> "A1", refresh_token |-> "R1"])]

\* every answer of the handshake so far is the stub's answer
StubRun ==
  \A i \in DOMAIN net :
    net[i].ep \in DOMAIN StubResponse =>
      /\ net[i].kind # "exception"
      /\ net[i].kind = "response" => net[i].msg = StubResponse[net[i].ep]

\* what each stub is handed in the scenario
StubSees(i) ==
  LET r == net[i].msg
  IN CASE net[i].ep = "step1" -> r.json.id = "e1"
       [] net[i].ep = "step2" -> /\ r.json.id = "e2"
                                 /\ r.json.parameters.username = env.EMAIL
                                 /\ r.json.parameters.password = env.PASSWORD
       [] net[i].ep = "step3" -> r.json.id = "e3" /\ r.url = LoginUrl("c2")
       [] net[i].ep = "resume" -> r.data.dvResponse = "dv1" /\ r.data.state = "st2"
       [] net[i].ep = "token" -> r.data.code = "AUTH9"
                                 /\ r.data.code_verifier = code_verifier
       [] OTHER -> TRUE

\* C1: against the deterministic stubs of the end-to-end scenario the
\* handshake never fails, every stub is handed the values the scenario
\* names, and once the token response is in, the script holds the token pair
\* (A1, R1).
C1_EndToEnd ==
  StubRun =>
    /\ \A i \in DOMAIN net : net[i].kind = "request" => StubSees(i)
    /\ pc = "FAILED" => error.line > 154
    /\ Received("token") # {} => access_token = "A1" /\ refresh_token = "R1"
    /\ pc = "TOKEN_EXCHANGED" => Len(net) = 14

C1_Witness ==
  /\ StubRun
  /\ pc = "TOKEN_EXCHANGED"
  /\ access_token = "A1" /\ refresh_token = "R1"

\* C2: requests and answers alternate in the log, so a request is sent only
\* after the answer to its predecessor has arrived, and the k-th request is
\* addressed to the k-th endpoint of authorize, start-policy, login step 1,
\* login step 2, login step 3, resume, token.
C2_FixedOrder ==
  \A i \in DOMAIN net :
    /\ (net[i].kind = "request") <=> (i % 2 = 1)
    /\ net[i].kind = "request" =>
         /\ net[i].ep = CallOrder[(i + 1) \div 2]
         /\ net[i].msg.url \in EndpointUrls(CallOrder[(i + 1) \div 2])
    /\ net[i].kind # "request" => net[i].ep = net[i - 1].ep

C2_Witness ==
  /\ pc = "AWAIT_TOKEN"
  /\ Len(net) = 13
  /\ net[13].kind = "request" /\ net[13].ep = "token"

\* C3: each login-step request carries as its body field id the id of the
\* response received immediately before it, and never an id of an earlier
\* response that differs from it.
C3_EnvelopeThreading ==
  \A i \in DOMAIN net :
    (net[i].kind = "request" /\ net[i].ep \in LoginSteps) =>
      /\ net[i - 1].kind = "response"
      /\ net[i].msg.json.id = net[i - 1].msg.json.id
      /\ \A j \in 1..(i - 2) :
           (/\ net[j].kind = "response"
            /\ "id" \in DOMAIN net[j].msg.json
            /\ net[j].msg.json.id # net[i - 1].msg.json.id)
           => net[i].msg.json.id # net[j].msg.json.id

C3_Witness ==
  /\ pc = "AWAIT_STEP3"
  /\ net[4].msg.json.id = "e1"
  /\ net[6].msg.json.id = "e2"
  /\ net[9].msg.json.id = "e3"

\* C4: login steps 1 and 2 are posted to the login endpoint of the default
\* connection id, login step 3 to the login endpoint of the connection id
\* returned by step 2, which is not the default endpoint when the ids differ.
C4_ConnectionRotation ==
  \A i \in DOMAIN net :
    net[i].kind = "request" =>
      /\ net[i].ep \in {"step1", "step2"} =>
           net[i].msg.url = LoginUrl(STANDARD_CONNECTION_ID)
      /\ net[i].ep = "step3" =>
           /\ net[i].msg.url = LoginUrl(net[i - 1].msg.json.connectionId)
           /\ net[i - 1].msg.json.connectionId # STANDARD_CONNECTION_ID =>
                net[i].msg.url # LoginUrl(STANDARD_CONNECTION_ID)

C4_Witness ==
  /\ pc = "AWAIT_STEP3"
  /\ net[8].msg.json.connectionId = "c2"
  /\ net[9].msg.url = LoginUrl("c2")

\* C5: each of the three login-step requests carries in its headers the
\* interactionId and the interactionToken of the start-policy response.
C5_InteractionScoped ==
  \A i \in DOMAIN net :
    (net[i].kind = "request" /\ net[i].ep \in LoginSteps) =>
      /\ {"interactionId", "interactionToken"} \subseteq DOMAIN net[4].msg.json
      /\ {"interactionId", "interactionToken"} \subseteq DOMAIN net[i].msg.headers
      /\ net[i].msg.headers.interactionId = net[4].msg.json.interactionId
      /\ net[i].msg.headers.interactionToken = net[4].msg.json.interactionToken

\* the strings a request carries: its URL, query parameters, headers, form
\* fields, and the string fields of its JSON body
DictValues(d) == {d[k] : k \in DOMAIN d}
LeafStrings(req) ==
  {req.url} \cup DictValues(req.params) \cup DictValues(req.headers)
    \cup DictValues(req.data)
    \cup {req.json[k] : k \in DOMAIN req.json \cap {"id", "eventName"}}
    \cup (IF "parameters" \in DOMAIN req.json
            THEN DictValues(req.json.parameters) ELSE {})
CarriesCredentials(req) ==
  LeafStrings(req) \cap {env.EMAIL, env.PASSWORD} # {}

\* C6: the username and the password are carried by the request of login
\* step 2 and by no other request, downstream calls included, and that
\* request is sent at most once.
C6_CredentialsOnlyInStep2 ==
  /\ \A i \in DOMAIN net :
       net[i].kind = "request" =>
         /\ CarriesCredentials(net[i].msg) => net[i].ep = "step2"
         /\ net[i].ep = "step2" =>
              /\ net[i].msg.json.parameters.username = env.EMAIL
              /\ net[i].msg.json.parameters.password = env.PASSWORD
  /\ Cardinality(Sent("step2")) <= 1

C6_Witness ==
  /\ pc = "DONE"
  /\ Cardinality(Sent("step2")) = 1
  /\ Sent("step3") # {} /\ Sent("team") # {}

\* C7: the resume request carries the dvResponse of the step-3 response and,
\* as state, the value of the hidden state input of the authorization page;
\* when that value differs from the state sent with the authorization
\* request, the latter is not sent at resume.
C7_ResumeReplaysPageState ==
  \A i \in DOMAIN net :
    (net[i].kind = "request" /\ net[i].ep = "resume") =>
      /\ net[i].msg.data.dvResponse = net[i - 1].msg.json.dvResponse
      /\ net[i].msg.data.state = ScrapeState(net[2].msg.text).group1
      /\ ScrapeState(net[2].msg.text).group1 # net[1].msg.params.state =>
           net[i].msg.data.state # net[1].msg.params.state

C7_Witness ==
  /\ pc = "AWAIT_RESUME"
  /\ net[11].msg.data.state = "st2"
  /\ net[1].msg.params.state = "st1"

(***************************************************************************)
(* The query string of a URL as a URL parser reads it: what stands between *)
(* the first "?" and the first "#", split at "&" into key=value pairs.     *)
(***************************************************************************)
FragmentStart(loc) == Min({i \in 1..Len(loc) : loc[i] = "#"} \cup {Len(loc) + 1})
Query(loc) ==
  LET marks == {i \in 1..(FragmentStart(loc) - 1) : loc[i] = "?"}
  IN IF marks = {} THEN <<>>
     ELSE SubSeq(loc, Min(marks) + 1, FragmentStart(loc) - 1)
CodeParams(q) ==
  {p \in 1..Len(q) : /\ p = 1 \/ q[p - 1] = "&"
                     /\ q[p] = "code"
                     /\ p + 1 <= Len(q)
                     /\ q[p + 1] = "="}
HasCodeParam(loc) == CodeParams(Query(loc)) # {}
QueryCode(loc) ==
  LET q == Query(loc)
      p == Min(CodeParams(q))
  IN Concat(SubSeq(q, p + 2, RunEnd(q, p + 2) - 1))

\* the resume response, once it is in
ResumeAnswered == Received("resume") # {}
ResumeResponse == net[12].msg
HasLocation(r) == "Location" \in DOMAIN r.headers

\* C8: whenever the Location of the resume response has a code parameter in
\* its query string, the script goes on with auth_code equal to the value
\* of that parameter.
C8_ExtractsCodeExactly ==
  (/\ ResumeAnswered
   /\ HasLocation(ResumeResponse)
   /\ HasCodeParam(ResumeResponse.headers.Location))
  => /\ auth_code = QueryCode(ResumeResponse.headers.Location)
     /\ \/ error.type = "none"
        \/ error.line > 139

\* C9: when the resume response has no Location header, or a Location
\* whose query string has no code parameter, the script has failed and no
\* token request is sent.
C9_NoCodeIsFatal ==
  (/\ ResumeAnswered
   /\ \/ ~HasLocation(ResumeResponse)
      \/ ~HasCodeParam(ResumeResponse.headers.Location))
  => /\ pc = "FAILED"
     /\ Sent("token") = {}

\* C10: the token request is an authorization_code grant carrying the code
\* found in the resume redirect, a verifier whose challenge is the one sent
\* with the authorization request, and the client id and redirect target of
\* the authorization request.
C10_TokenRequestBinding ==
  \A i \in Sent("token") :
    LET d == net[i].msg.data
        a == net[1].msg.params
    IN /\ d.grant_type = "authorization_code"
       /\ net[i - 1].kind = "response" /\ net[i - 1].ep = "resume"
       /\ d.code = SearchCode(net[i - 1].msg.headers.Location).group1
       /\ d.code_verifier \in Verifiers
       /\ Challenges[d.code_verifier] = a.code_challenge
       /\ d.client_id = a.client_id
       /\ d.redirect_uri = a.redirect_uri

C10_Witness ==
  /\ pc = "AWAIT_TOKEN"
  /\ net[13].msg.data.code = "AUTH9"
  /\ entropy = token_bytes(1)
  /\ net[13].msg.data.code_verifier = generate_code_verifier(entropy)
  /\ net[1].msg.params.code_challenge = Challenges[code_verifier]

\* ---------------------------------------------------------------------
\* Failure handling of the handshake

Success(status) == status \in 200..299
AuthorizeAnswered == Received("authorize") # {}
AuthorizeResponse == net[2].msg
StartAnswered == Received("start") # {}
StartResponse == net[4].msg
TokenAnswered == Received("token") # {}
TokenResponse == net[14].msg
LoginRequests == UNION {Sent(ep) : ep \in LoginSteps}
DownstreamRequests == Sent("me") \cup Sent("team")

\* the page carries <input ... name="state" ...>
HasStateInput(html) ==
  \E t \in DOMAIN html.inputs : \E a \in DOMAIN html.inputs[t] :
    html.inputs[t][a] = Attr("name", "state")
\* the page carries a quoted "accessToken": field
HasAccessTokenField(html) ==
  \E f \in DOMAIN html.fields : html.fields[f].key = "accessToken"

\* C11: a token response without access_token or refresh_token, or with a
\* non-success status, ends the run failed: no token pair is kept and no
\* downstream request is sent.
C11_TokenFailureIsFatal ==
  (/\ TokenAnswered
   /\ \/ ~Has(TokenResponse, "access_token")
      \/ ~Has(TokenResponse, "refresh_token")
      \/ ~Success(TokenResponse.status_code))
  => /\ pc = "FAILED"
     /\ refresh_token = Unset
     /\ DownstreamRequests = {}

\* C12: a sign-in page without the hidden state input or without the quoted
\* accessToken field fails the run at the scrape, with the authorize
\* response the last network event.
C12_PageShapeIsFatal ==
  (/\ AuthorizeAnswered
   /\ \/ ~HasStateInput(AuthorizeResponse.text)
      \/ ~HasAccessTokenField(AuthorizeResponse.text))
  => /\ pc = "FAILED"
     /\ error.type = "AttributeError"
     /\ error.line \in {54, 56}
     /\ Len(net) = 2

C12_Witness ==
  /\ pc = "FAILED"
  /\ error.line = 56
  /\ HasAccessTokenField(AuthorizeResponse.text)
  /\ ~HasStateInput(AuthorizeResponse.text)

\* C13: an authorize response with a non-success status fails the run with
\* no further request, whatever its body.
C13_AuthorizeStatusIsFatal ==
  (AuthorizeAnswered /\ ~Success(AuthorizeResponse.status_code))
  => /\ pc = "FAILED"
     /\ Len(net) = 2

\* C14: a start-policy response without interactionId, interactionToken or
\* id is never followed by a login request, and the run fails on the
\* missing field.
C14_StartShapeIsFatal ==
  (/\ StartAnswered
   /\ ~({"interactionId", "interactionToken", "id"} \subseteq DOMAIN StartResponse.json))
  => /\ LoginRequests = {}
     /\ Len(net) = 4
     /\ pc \in {"FAILED", "INTERACTION_STARTED"}
     /\ pc = "FAILED" => error.type \in {"KeyError", "JSONDecodeError"}
     /\ pc = "INTERACTION_STARTED" => response = StartResponse

C14_Witness ==
  /\ pc = "FAILED"
  /\ error = [type |-> "KeyError", line |-> 76]
  /\ {"interactionId", "interactionToken"} \subseteq DOMAIN StartResponse.json

\* what a login-step response must carry for the next request to be built
StepFields ==
  [step1 |-> {"id"}, step2 |-> {"id", "connectionId"}, step3 |-> {"dvResponse"}]
StepResponseAt == [step1 |-> 6, step2 |-> 8, step3 |-> 10]
StepRaises ==
  [step1 |-> {[type |-> "JSONDecodeError", line |-> 90], [type |-> "KeyError", line |-> 90]},
   step2 |-> {[type |-> "JSONDecodeError", line |-> 106], [type |-> "KeyError", line |-> 109],
              [type |-> "KeyError", line |-> 112]},
   step3 |-> {[type |-> "JSONDecodeError", line |-> 132], [type |-> "KeyError", line |-> 132]}]
StepReceived == [step1 |-> "STEP1_DONE", step2 |-> "STEP2_DONE", step3 |-> "STEP3_DONE"]

\* C15: a login-step response without the field the next request is built
\* from (id after step 1, id or connectionId after step 2, dvResponse after
\* step 3) is the last network event of the run, and the run fails on that
\* field.
C15_LoginShapeIsFatal ==
  \A ep \in LoginSteps :
    (/\ Received(ep) # {}
     /\ ~(StepFields[ep] \subseteq DOMAIN net[StepResponseAt[ep]].msg.json))
    => /\ Len(net) = StepResponseAt[ep]
       /\ pc \in {"FAILED", StepReceived[ep]}
       /\ pc = "FAILED" => error \in StepRaises[ep]
       /\ pc = StepReceived[ep] => response = net[StepResponseAt[ep]].msg

C15_Witness ==
  /\ pc = "FAILED"
  /\ error = [type |-> "KeyError", line |-> 132]
  /\ net[10].msg.isJson
  /\ Len(net) = 10

\* the requests of the log sent to one of the given URLs
SentTo(urls) ==
  {i \in DOMAIN net : net[i].kind = "request" /\ net[i].msg.url \in urls}

StepAtLine(l) ==
  IF l \in 51..56 THEN "authorize"
  ELSE IF l \in 60..66 THEN "start"
  ELSE IF l \in 69..81 THEN "step1"
  ELSE IF l \in 83..106 THEN "step2"
  ELSE IF l \in 108..126 THEN "step3"
  ELSE IF l \in 129..139 THEN "resume"
  ELSE IF l \in 142..154 THEN "token"
  ELSE "downstream"
\* the step after a step of the handshake
StepAfter(ep) ==
  IF \E i \in 1..6 : HandshakeOrder[i] = ep
    THEN HandshakeOrder[(CHOOSE i \in 1..6 : HandshakeOrder[i] = ep) + 1]
  ELSE "downstream"
HandshakeFailed == pc = "FAILED" /\ StepAtLine(error.line) # "downstream"
HandshakeSucceeded == refresh_token # Unset

\* C17: a run ends the handshake in one of two ways and never both: with the
\* token pair of the token response, or failed with an error whose source
\* line lies in the step that failed and no token pair.
C17_SingleTerminalResult ==
  /\ (pc = "FAILED") <=> (error.type # "none")
  /\ ~(HandshakeFailed /\ HandshakeSucceeded)
  /\ pc \in {"TOKEN_EXCHANGED", "AWAIT_ME", "ME_FETCHED", "AWAIT_TEAM", "DONE"}
       => HandshakeSucceeded
  /\ HandshakeSucceeded =>
       /\ TokenAnswered
       /\ {"access_token", "refresh_token"} \subseteq DOMAIN TokenResponse.json
       /\ access_token = TokenResponse.json.access_token
       /\ refresh_token = TokenResponse.json.refresh_token
  /\ HandshakeFailed =>
       /\ net # <<>>
       /\ StepAtLine(error.line) \in
            {net[Len(net)].ep, StepAfter(net[Len(net)].ep)}
       /\ net[Len(net)].kind = "exception" => StepAtLine(error.line) = net[Len(net)].ep

C17_Witness ==
  /\ pc = "FAILED"
  /\ error = [type |-> "KeyError", line |-> 154]
  /\ access_token = "A1"
  /\ refresh_token = Unset

\* ---------------------------------------------------------------------
\* PKCE

\* RFC 4648 section 5: the base64url alphabet, value 0 first
Base64UrlAlphabet ==
  [v \in 0..63 |-> IF v = 62 THEN "-" ELSE IF v = 63 THEN "_" ELSE b64alphabet[v + 1]]
UrlSafeChars == {Base64UrlAlphabet[v] : v \in 0..63}

\* bit n of a byte string, most significant bit of the first byte first,
\* zero past the end
Bit(bytes, n) ==
  IF n >= 8 * Len(bytes) THEN 0
  ELSE (bytes[n \div 8 + 1] \div 2 ^ (7 - (n % 8))) % 2

\* RFC 4648 base64url without padding: the bits of the input taken six at
\* a time, the last group filled with zero bits
Base64UrlNoPad(bytes) ==
  [k \in 1..(8 * Len(bytes) + 5) \div 6 |->
     Base64UrlAlphabet[Sum([b \in 0..5 |-> Bit(bytes, 6 * (k - 1) + b) * 2 ^ (5 - b)], 0, 5)]]

CharsOf(string) == {SubSeq(string, i, i) : i \in 1..Len(string)}

\* C19: the challenge of a verifier is the unpadded base64url text of the
\* SHA-256 digest of the verifier's bytes.
C19_ChallengeIsS256 ==
  pc = "CHALLENGE" =>
    code_challenge = decode(Base64UrlNoPad(sha256(encode(code_verifier))))

C19_Witness ==
  /\ pc = "CHALLENGE"
  /\ Len(code_challenge) = 43
  /\ {"-", "_"} \cap CharsOf(code_challenge) # {}

\* C20: a generated verifier is 43 to 128 characters long and made of
\* URL-safe characters only.
C20_VerifierShape ==
  pc \in {"VERIFIER", "CHALLENGE"} =>
    /\ Len(code_verifier) \in 43..128
    /\ CharsOf(code_verifier) \subseteq UrlSafeChars

C20_Witness ==
  /\ pc = "VERIFIER"
  /\ Len(code_verifier) = 86
  /\ {"-", "_"} \subseteq CharsOf(code_verifier)

\* ---------------------------------------------------------------------
\* Downstream calls and output

\* the bootstrap token scraped from the authorization page
BootstrapToken == ScrapeAccessToken(AuthorizeResponse.text).group1

\* C21: every downstream request follows a token response that succeeded
\* and carries both tokens, and its bearer header is that response's
\* access_token, not the bootstrap token of the authorization page.
C21_DownstreamBearer ==
  \A i \in DownstreamRequests :
    /\ TokenAnswered /\ i > 14
    /\ Success(TokenResponse.status_code)
    /\ {"access_token", "refresh_token"} \subseteq DOMAIN TokenResponse.json
    /\ DictValues(net[i].msg.headers) = {Bearer(TokenResponse.json.access_token)}
    /\ DictValues(net[i].msg.headers) # {Bearer(BootstrapToken)}

\* text occurs inside str
Contains(string, text) ==
  \E i \in 1..(Len(string) + 1 - Len(text)) : SubSeq(string, i, i + Len(text) - 1) = text

\* the username, the password and the tokens the run holds
Secrets ==
  {env.EMAIL, env.PASSWORD}
    \cup ({access_token, refresh_token, interaction_token} \ {Unset})
    \cup (IF AuthorizeAnswered /\ ScrapeAccessToken(AuthorizeResponse.text).matched
            THEN {BootstrapToken} ELSE {})
\* the texts printed, the status code of the failure line apart
Printed ==
  {stdout[l][j] : <<l, j>> \in
     {<<l, j>> \in (DOMAIN stdout) \X (1..3) :
        /\ j \in DOMAIN stdout[l]
        /\ ~(j = 2 /\ stdout[l][1] = "Failed to fetch team data. Status code:")}}
\* the texts written to files
Saved == UNION {DictValues(files[f]) : f \in DOMAIN files}

\* C22: nothing printed and nothing saved contains the username, the
\* password or a token of the run.
C22_NoSecretWritten ==
  \A text \in Printed \cup Saved : \A secret \in Secrets : ~Contains(text, secret)

C22_Witness ==
  /\ pc = "DONE"
  /\ Len(stdout) = 3
  /\ refresh_token = "R1"
  /\ "denied" \in Printed

\* the value attributes of the <input> tags that carry name="state"
StateInputValues(html) ==
  {html.inputs[t][a].value : <<t, a>> \in
     {<<t, a>> \in (DOMAIN html.inputs) \X (1..4) :
        /\ a \in DOMAIN html.inputs[t]
        /\ html.inputs[t][a].name = "value"
        /\ html.inputs[t][a].value # ""
        /\ \E n \in DOMAIN html.inputs[t] : html.inputs[t][n] = Attr("name", "state")}}

\* C27: from a page with a quoted accessToken field and one hidden input
\* named state with a value, the value of that input is bound to new_state,
\* whatever the order of the input's attributes.
C27_StateScrapedInAnyOrder ==
  (/\ AuthorizeAnswered
   /\ ScrapeAccessToken(AuthorizeResponse.text).matched
   /\ Cardinality(StateInputValues(AuthorizeResponse.text)) = 1)
  => /\ ~(pc = "FAILED" /\ Len(net) = 2)
     /\ new_state \in StateInputValues(AuthorizeResponse.text)

\* C26: an execution starts with no verifier, challenge or state bound, and
\* whatever it sends was minted by lines 35-37 of this same execution from
\* the bytes it drew, before its authorization request.
C26_FreshPkcePerAttempt ==
  /\ pc = "START" =>
       /\ entropy = <<>> /\ net = <<>>
       /\ code_verifier = Unset /\ code_challenge = Unset /\ initial_state = Unset
  /\ pc # "START" =>
       /\ minted = attempt
       /\ code_verifier = generate_code_verifier(entropy)
       /\ code_challenge = Challenges[code_verifier]
  /\ net # <<>> =>
       /\ net[1].kind = "request" /\ net[1].ep = "authorize"
       /\ net[1].msg.params.code_challenge = code_challenge
       /\ net[1].msg.params.state = initial_state

C26_Witness ==
  /\ attempt = 2
  /\ minted = 2
  /\ pc = "AWAIT_PAGE"

\* ---------------------------------------------------------------------
\* utils/data_loader.py

Finished == frame.at = "done"
\* response.ok: the status is no error status
ok(status) == status \notin 400..599

\* C23: a call of load_player_data or load_fixtures_data ends by returning
\* the decoded body of a response without error status or by raising
\* RuntimeError; an error status, a timeout, a connection error and an
\* undecodable body all end it with RuntimeError.
C23_LoaderRaisesRuntimeError ==
  /\ result # EmptyDict <=> Finished
  /\ Finished =>
       /\ result.kind \in {"return", "raise"}
       /\ result.kind = "return" <=>
            /\ call.get.raises = ""
            /\ ok(call.get.status_code)
            /\ call.get.body.isJson
       /\ result.kind = "return" => result.value = call.get.body.json
       /\ result.kind = "raise" =>
            /\ result.type = "RuntimeError"
            /\ result.message[2] = Loaders[call.fn].noun
            /\ result.message[1] =
                 IF call.get.raises = "" /\ ~ok(call.get.status_code)
                   THEN "HTTP error occurred while fetching"
                 ELSE IF call.get.raises \in {"ConnectTimeout", "ReadTimeout"}
                   THEN "Request timed out while fetching"
                 ELSE "An error occurred while fetching"

C23_Witness ==
  /\ Finished
  /\ call.fn = "load_fixtures_data"
  /\ call.get.status_code = 200
  /\ result.kind = "raise"
  /\ result.message[3] = "JSONDecodeError"


\* C24: the league table build_pl_table returns is sorted by Points and then
\* by Goal Difference, both descending: no row has more Points than a row
\* above it, among rows of equal Points none has a greater Goal Difference
\* than a row above it, and Position numbers the rows 1, 2, 3, ...
C24_TableSortedAndNumbered ==
  frame.at = "pl_table" /\ result.kind = "return" =>
    /\ \A i, j \in DOMAIN result.value :
         i < j =>
           /\ result.value[i].Points >= result.value[j].Points
           /\ result.value[i].Points = result.value[j].Points =>
                result.value[i].GoalDifference >= result.value[j].GoalDifference
    /\ \A k \in DOMAIN result.value : result.value[k].Position = k
\* a table in which the order of Goal Difference moved a team below teams
\* listed after it, with as many Points
C24_Witness ==
  /\ frame.at = "pl_table" /\ result.kind = "return"
  /\ \E i, j \in DOMAIN result.value :
       /\ i < j
       /\ result.value[i].Points = result.value[j].Points
       /\ result.value[i].GoalDifference > result.value[j].GoalDifference
       /\ result.value[j].Team = pl_teams_list[1]
       /\ result.value[i].Team = pl_teams_list[2]
  /\ result.value[1].Points > result.value[2].Points


\* the fixtures of a team in the fixtures table, and the k-th of them
FixturesOf(team) ==
  {i \in DOMAIN frame.fixtures_df :
     frame.fixtures_df[i].HomeTeam = team \/ frame.fixtures_df[i].AwayTeam = team}
NthFixtureOf(team, k) ==
  CHOOSE i \in FixturesOf(team) :
    Cardinality({j \in FixturesOf(team) : j < i}) = k - 1
\* C25: create_team_fixtures_database maps every team of team_list to a
\* table holding exactly the fixtures in which the team is the home or the
\* away side, in fixture order; a row gives Venue Home, the away side as
\* Opponent and the home difficulty when the team is at home, and Venue Away,
\* the home side as Opponent and the away difficulty otherwise; every
\* fixture between two listed teams is in exactly two tables
C25_TeamFixturesDatabase ==
  frame.at = "fixtures_database" =>
    /\ DOMAIN frame.fixtures_database = {pl_teams_list[t] : t \in DOMAIN pl_teams_list}
    /\ \A team \in DOMAIN frame.fixtures_database :
         LET table == frame.fixtures_database[team]
         IN /\ Len(table) = Cardinality(FixturesOf(team))
            /\ \A k \in DOMAIN table :
                 LET game == frame.fixtures_df[NthFixtureOf(team, k)]
                 IN /\ table[k].GameWeek = game.Gameweek
                    /\ table[k].Score = game.Score
                    /\ IF game.HomeTeam = team
                         THEN /\ table[k].Venue = "Home"
                              /\ table[k].Opponent = game.AwayTeam
                              /\ table[k].FixtureDifficultyRating = game.HomeTeamDifficulty
                       ELSE /\ table[k].Venue = "Away"
                            /\ table[k].Opponent = game.HomeTeam
                            /\ table[k].FixtureDifficultyRating = game.AwayTeamDifficulty
    /\ \A i \in DOMAIN frame.fixtures_df :
         Cardinality({team \in DOMAIN frame.fixtures_database :
                        \E k \in DOMAIN frame.fixtures_database[team] :
                          /\ NthFixtureOf(team, k) = i
                          /\ frame.fixtures_database[team][k].Opponent
                               \in {frame.fixtures_df[i].HomeTeam,
                                    frame.fixtures_df[i].AwayTeam}}) = 2
\* the table of a team that was away in its first fixture and at home in
\* its second
C25_Witness ==
  /\ frame.at = "fixtures_database"
  /\ Len(frame.fixtures_database[pl_teams_list[1]]) = 3
  /\ frame.fixtures_database[pl_teams_list[1]][1].Venue = "Away"
  /\ frame.fixtures_database[pl_teams_list[1]][1].Opponent = pl_teams_list[3]
  /\ frame.fixtures_database[pl_teams_list[1]][2].Venue = "Home"
  /\ frame.fixtures_database[pl_teams_list[1]][2].Opponent = pl_teams_list[2]


\* the row of a team in the league table returned
RowOf(team) ==
  result.value[CHOOSE k \in DOMAIN result.value : result.value[k].Team = team]
\* the fixtures of a team that were played, in the table of its fixtures
PlayedBy(team) ==
  {gw \in DOMAIN frame.fixtures_database[team] :
     frame.fixtures_database[team][gw].Score # "Yet to Happen"}
\* C28: in every row of the table built by build_pl_table, Matches Played
\* equals Wins + Draws + Losses, the number of the fixtures of the team whose
\* score is not 'Yet to Happen', for any ordering of played and unplayed
\* fixtures
C28_MatchesPlayedCountsPlayed ==
  frame.at = "pl_table" /\ result.kind = "return" =>
    \A k \in DOMAIN result.value :
      /\ result.value[k].MatchesPlayed =
           result.value[k].Wins + result.value[k].Draws + result.value[k].Losses
      /\ result.value[k].MatchesPlayed = Cardinality(PlayedBy(result.value[k].Team))

\* the goals of a side in the matches of fixtures_json that were played
GoalsFor(team) ==
  Sum([i \in DOMAIN call.fixtures_json |->
         LET match == call.fixtures_json[i]
         IN IF match.team_h_score = None THEN 0
            ELSE IF match.team_h = team THEN match.team_h_score
            ELSE IF match.team_a = team THEN match.team_a_score
            ELSE 0],
      1, Len(call.fixtures_json))
GoalsAgainst(team) ==
  Sum([i \in DOMAIN call.fixtures_json |->
         LET match == call.fixtures_json[i]
         IN IF match.team_h_score = None THEN 0
            ELSE IF match.team_h = team THEN match.team_a_score
            ELSE IF match.team_a = team THEN match.team_h_score
            ELSE 0],
      1, Len(call.fixtures_json))
\* C29: for every played fixture with home score h and away score a, scores
\* of 10 or more included, build_pl_table adds h to the Goals Scored of the
\* home team and a to its Goals Conceded, and a to the Goals Scored of the
\* away team and h to its Goals Conceded: the Goals Scored and the Goals
\* Conceded of a team are the sums over its played fixtures
C29_GoalsAreSummed ==
  frame.at = "pl_table" =>
    /\ result.kind = "return"
    /\ \A t \in DOMAIN pl_teams_list :
         /\ RowOf(pl_teams_list[t]).GoalsScored = GoalsFor(pl_teams_list[t])
         /\ RowOf(pl_teams_list[t]).GoalsConceded = GoalsAgainst(pl_teams_list[t])


\* a fetch starts: load_all_data is called in the session
Fetches(s) == session[s].at # "load" /\ session'[s].at = "load"
\* the page of the rerun that follows a press of Refresh Data
ShownAfterRefresh(s) ==
  session[s].at = "done" /\ session[s].following
\* C30: the data is fetched only when no cached result younger than 900
\* seconds exists; after Refresh Data is pressed the data shown on the
\* following rerun comes from a fetch whose fetched_at is later than the
\* press; within one rerun every table derives from the same single fetch
C30_FetchOnlyWhenStaleAndFreshAfterRefresh ==
  /\ [][\A s \in Sessions :
          Fetches(s) => cache = <<>> \/ now - cache[1].stored_at >= TTL]_vars
  /\ [](\A s \in Sessions :
          /\ ShownAfterRefresh(s) =>
               session[s].shown[1].fresh > session[s].pressed_at
          /\ session[s].at = "done" =>
               /\ session[s].shown[1].player_df = session[s].shown[1].fresh
               /\ session[s].shown[1].fixtures_df = session[s].shown[1].fresh
               /\ session[s].shown[1].pl_table_df = session[s].shown[1].fresh)

====
